---- MODULE Spec2Model ----
(***************************************************************************)
(* fastwalk: walk directory trees, map every regular file to its extents,  *)
(* then print the names in disk order or issue readaheads in disk order    *)
(* through an LRU pool of file descriptors.  Model of src/fastwalk.c.      *)
(***************************************************************************)
EXTENDS Integers, Sequences, FiniteSets, TLC

(***************************************************************************)
(* Bounds of the model.                                                    *)
(***************************************************************************)
\* most Extent records the FIEMAP answers of one run add up to (the program
\* asks for up to N = 100 extents per file)
MaxExtents == 3
\* most open and stat calls on existing objects that fail over one run
MaxFail == 1

(***************************************************************************)
(* unsigned 64-bit values (u64).  TLC integers are 32 bits wide, so a u64  *)
(* is kept as three limbs <<hi, b31, lo>>: bits 63..32, bit 31, bits 30..0.*)
(* Its value is hi * 2^32 + b31 * 2^31 + lo.                               *)
(***************************************************************************)
P31m1 == 2147483647

U64(n) == <<0, 0, n>>

U64Zero == U64(0)

\* true unsigned order of two u64
LtU64(a, b) ==
  \/ a[1] < b[1]
  \/ a[1] = b[1] /\ a[2] < b[2]
  \/ a[1] = b[1] /\ a[2] = b[2] /\ a[3] < b[3]

LeqU64(a, b) == a = b \/ LtU64(a, b)

\* (int)(a - b): the u64 difference keeps its low 32 bits, read as signed
SubToInt(a, b) ==
  LET d == a[3] - b[3]
      borrow == IF d < 0 THEN 1 ELSE 0
      d31 == IF d < 0 THEN (d + P31m1) + 1 ELSE d
      top == (a[2] - b[2] - borrow) % 2
  IN  IF top = 1 THEN (d31 - P31m1) - 1 ELSE d31

(***************************************************************************)
(* The file system the program runs on: a stable tree, keyed by the path   *)
(* the program builds for each object (working directory ".").             *)
(***************************************************************************)
FS ==
  [p \in {".", "./a", "./d", "./d/b", "./d/e", "./d/e/c"} |->
     CASE p = "."       -> [kind |-> "DT_DIR", ino |-> 1, size |-> 0, names |-> <<"a", "d">>]
       [] p = "./a"     -> [kind |-> "DT_REG", ino |-> 6, size |-> 1, names |-> <<>>]
       [] p = "./d"     -> [kind |-> "DT_DIR", ino |-> 2, size |-> 0, names |-> <<"e", "b">>]
       [] p = "./d/b"   -> [kind |-> "DT_REG", ino |-> 5, size |-> 2, names |-> <<>>]
       [] p = "./d/e"   -> [kind |-> "DT_DIR", ino |-> 3, size |-> 0, names |-> <<"c">>]
       [] p = "./d/e/c" -> [kind |-> "DT_REG", ino |-> 4, size |-> 3, names |-> <<>>]]

\* the ROOT arguments of a run (an empty list: no ROOT given)
RootArgs ==
  { <<>>, <<"./d">>, <<"./d/e", "./d/e">>, <<"./nosuch", "./d/e">> }

\* the -p SKIP arguments of a run
SkipArgs == { <<>>, <<"d">>, <<"c", "c">> }

\* physical addresses the kernel reports: 1 and 2^32
DiskVals == { <<0, 0, 1>>, <<1, 0, 0>> }

\* fm_mapped_extents of the FIEMAP answers
MappedCounts == {0, 1, 2}

\* what the file system answers to the mapping ioctls
\*   fiemap: FS_IOC_FIEMAP succeeds
\*   fibmap: FS_IOC_FIEMAP fails, FIBMAP succeeds
\*   nomap:  both fail (with EPERM or another errno: only the warning differs)
MapModes == { "fiemap", "fibmap", "nomap" }

\* the null pointer (slots and entries are named by indices from 0)
NULL == -1

\* a pointer that is not null and designates no object of the program
WILD == -2

VARIABLES
  pc,            \* position of main
  roots,         \* av[optind..ac-1]
  skip,          \* skip[0..skipcnt-1]
  do_readahead,  \* -r
  dtUnknown,     \* the file system reports every d_type as DT_UNKNOWN
  mapMode,       \* the file system's answer to FS_IOC_FIEMAP / FIBMAP
  entries,       \* entries[0..numentries-1], as a sequence
  extents,       \* extents[0..numextents-1], as a sequence
  found_unknown, \* main's found_unknown
  error,         \* the global error
  i,             \* main's loop index
  hu,            \* handle_unknown's locals: start, max, i, found_unknown; and
                 \* the names it has called stat on (stats), the names the walks
                 \* of this iteration of its loop appended (cur) and those of
                 \* the iteration before (prev)
  fds,           \* the slots fds[0..free_fd-1]
  lru,           \* the LRU list, head first
  free_fd,
  max_fd,
  rlim_cur,      \* the soft limit init_fd read
  curfd,         \* the third pass's fd = get_fd(e)
  kopen,         \* descriptors the process holds open
  out,           \* lines written to standard output
  ralog,         \* one record per iteration of the third pass
  errs,          \* kinds of failure that happened so far:
                 \*   openstat (open or stat of a root, a descendant or a file),
                 \*   mapfail (FIEMAP and FIBMAP both failed), getfd, readahead
  nfail,         \* failed open and stat calls on existing objects so far
  mapres,        \* for each entry the second pass opened, by index: whether open and
                 \* stat succeeded (ok), the numextents the mapper stored (k) and
                 \* the extents the fie it was handed describes (ret), and the
                 \* entry's name
  status         \* exit status once main returned, -1 before

vars == <<pc, roots, skip, do_readahead, dtUnknown, mapMode, entries, extents,
          found_unknown, error, i, hu, fds, lru, free_fd, max_fd, rlim_cur, curfd,
          kopen, out, ralog, errs, nfail, mapres, status>>

(***************************************************************************)
(* Tree Walker                                                             *)
(***************************************************************************)
\* getentry: the record after memset(e, 0, sizeof(struct entry))
getentry ==
  [name |-> "", ino |-> 0, dev |-> 0, type |-> "DT_UNKNOWN", fd |-> NULL,
   disk |-> U64Zero, numextents |-> 0]

\* doskip looking at "." and ".." only
doskip_builtin(name, skp) == \E k \in 1..2 : name = skp[k]

doskip(name, skp) == \E k \in 1..Len(skp) : name = skp[k]

\* open(dir, O_RDONLY|O_DIRECTORY) and fstat succeed
CanOpenDir(dir) == dir \in DOMAIN FS /\ FS[dir].kind = "DT_DIR"

\* the names readdir_r yields for a directory
Readdir(dir) == <<".", "..">> \o FS[dir].names

\* de->d_type of the child called name
DType(name, unk) == IF unk THEN "DT_UNKNOWN" ELSE FS[name].kind

RECURSIVE walk(_, _, _)
RECURSIVE WalkLoop(_, _, _, _, _)

\* the while loop of walk from the k-th directory entry on; acc is what the
\* call appended and found so far
WalkLoop(dir, skp, unk, k, acc) ==
  IF k > Len(Readdir(dir)) THEN acc
  ELSE
    LET d_name == Readdir(dir)[k]
        name == dir \o "/" \o d_name
    IN  IF doskip(d_name, skp) THEN WalkLoop(dir, skp, unk, k + 1, acc)
        ELSE IF DType(name, unk) = "DT_DIR"
        THEN LET r == walk(name, skp, unk)
             IN  WalkLoop(dir, skp, unk, k + 1,
                          [ents |-> acc.ents \o r.ents,
                           found |-> acc.found \/ r.found,
                           err |-> acc.err \/ r.err])
        ELSE LET e == [getentry EXCEPT !.type = DType(name, unk),
                                       !.ino = FS[name].ino,
                                       !.dev = 1,
                                       !.name = name]
             IN  WalkLoop(dir, skp, unk, k + 1,
                          [ents |-> Append(acc.ents, e),
                           found |-> acc.found \/ e.type = "DT_UNKNOWN",
                           err |-> acc.err])

\* walk(dir, skip, skipcnt): the entries it appends, its return value and
\* whether it called Perror
walk(dir, skp, unk) ==
  IF ~CanOpenDir(dir)
  THEN [ents |-> <<>>, found |-> FALSE, err |-> TRUE]
  ELSE WalkLoop(dir, skp, unk, 1, [ents |-> <<>>, found |-> FALSE, err |-> FALSE])

(***************************************************************************)
(* Sorting                                                                 *)
(***************************************************************************)
cmp_entry_ino(a, b) == a.ino - b.ino

cmp_entry_disk(a, b) == SubToInt(a.disk, b.disk)

cmp_extent(a, b) == SubToInt(a.disk, b.disk)

\* the comparison function orders the elements of s totally, as qsort requires;
\* c[x][y] is what it returns for the x-th and the y-th element
IsOrdering(s, c) ==
  /\ \A x \in 1..Len(s), y \in 1..Len(s) :
       /\ (c[x][y] < 0) = (c[y][x] > 0)
       /\ (c[x][y] = 0) = (c[y][x] = 0)
  /\ \A x \in 1..Len(s), y \in 1..Len(s), z \in 1..Len(s) :
       c[x][y] <= 0 /\ c[y][z] <= 0 => c[x][z] <= 0

\* qsort(s, n, size, cmp): the arrays it may leave, c[x][y] being what cmp
\* returns for the x-th and the y-th element of s.  With a comparison function
\* that is an ordering the result is sorted by it (equal keys in any order);
\* with one that is not, the behaviour is undefined and any arrangement of the
\* elements may result.
qsort(s, c) ==
  IF Len(s) <= 1 THEN {s}
  ELSE LET n == Len(s)
           arr(p) == [k \in 1..n |-> s[p[k]]]
       IN  IF IsOrdering(s, c)
           THEN { arr(p) : p \in
                    { q \in Permutations(1..n) :
                        \A k \in 1..(n - 1) : c[q[k]][q[k + 1]] <= 0 } }
           ELSE { arr(p) : p \in Permutations(1..n) }

sort_inodes(ents) ==
  qsort(ents, [x \in DOMAIN ents |-> [y \in DOMAIN ents |-> cmp_entry_ino(ents[x], ents[y])]])

sort_extents(exts) ==
  qsort(exts, [x \in DOMAIN exts |-> [y \in DOMAIN exts |-> cmp_extent(exts[x], exts[y])]])

RECURSIVE CopyHints(_, _, _)
\* the for loop of sort_entries_disk from the k-th extent on
CopyHints(ents, exts, k) ==
  IF k > Len(exts) THEN ents
  ELSE CopyHints([ents EXCEPT ![exts[k].entry + 1].disk = exts[k].disk], exts, k + 1)

\* sort_entries_disk sorting before it copies the hints
sort_entries_disk_sortfirst(ents, exts) ==
  { CopyHints(q, exts, 1) :
      q \in qsort(ents, [x \in DOMAIN ents |->
                          [y \in DOMAIN ents |-> cmp_entry_disk(ents[x], ents[y])]]) }

sort_entries_disk(ents, exts) ==
  LET hinted == CopyHints(ents, exts, 1)
  IN  qsort(hinted, [x \in DOMAIN hinted |->
                       [y \in DOMAIN hinted |-> cmp_entry_disk(hinted[x], hinted[y])]])

(***************************************************************************)
(* main: start, first pass, inode sort                                     *)
(***************************************************************************)
Init ==
  /\ pc = "walk"
  /\ roots \in RootArgs
  /\ \E args \in SkipArgs : skip = <<".", "..">> \o args
  /\ do_readahead \in BOOLEAN
  /\ dtUnknown \in BOOLEAN
  /\ mapMode \in MapModes
  /\ entries = <<>>
  /\ extents = <<>>
  /\ found_unknown = FALSE
  /\ error = 0
  /\ i = 0
  /\ hu = [start |-> 0, max |-> 0, i |-> 0, found_unknown |-> FALSE,
                stats |-> <<>>, cur |-> <<>>, prev |-> <<>>]
  /\ fds = <<>>
  /\ lru = <<>>
  /\ free_fd = 0
  /\ max_fd = 0
  /\ rlim_cur = 0
  /\ curfd = NULL
  /\ kopen = {}
  /\ out = <<>>
  /\ ralog = <<>>
  /\ errs = {}
  /\ nfail = 0
  /\ mapres = [x \in {} |-> 0]
  /\ status = -1

RECURSIVE WalkRoots(_, _, _, _, _)
\* the for loop over av[optind..ac-1] from the k-th ROOT on
WalkRoots(rs, skp, unk, k, acc) ==
  IF k > Len(rs) THEN acc
  ELSE LET r == walk(rs[k], skp, unk)
       IN  WalkRoots(rs, skp, unk, k + 1,
                     [ents |-> acc.ents \o r.ents,
                      found |-> acc.found \/ r.found,
                      err |-> acc.err \/ r.err])

\* First pass: read directories
FirstPass ==
  /\ pc = "walk"
  /\ LET none == [ents |-> <<>>, found |-> FALSE, err |-> FALSE]
         r == IF roots = <<>>
              THEN [walk(".", skip, dtUnknown) EXCEPT !.found = FALSE]
              ELSE WalkRoots(roots, skip, dtUnknown, 1, none)
     IN  /\ entries' = r.ents
         /\ found_unknown' = r.found
         /\ error' = IF r.err THEN 1 ELSE error
         /\ errs' = IF r.err THEN errs \cup {"openstat"} ELSE errs
  /\ pc' = "sort"
  /\ UNCHANGED <<roots, skip, do_readahead, dtUnknown, mapMode, extents, i, hu, fds,
                 lru, free_fd, max_fd, rlim_cur, curfd, kopen, out, ralog, nfail, mapres, status>>

\* Inode sort for fast stat, then the call of handle_unknown
SortInodes ==
  /\ pc = "sort"
  /\ entries' \in sort_inodes(entries)
  /\ IF found_unknown
     THEN /\ pc' = "hu_top"
          /\ hu' = [start |-> 0, max |-> 0, i |-> 0, found_unknown |-> FALSE,
                stats |-> <<>>, cur |-> <<>>, prev |-> <<>>]
          /\ i' = i
     ELSE /\ pc' = "map"
          /\ i' = 0
          /\ hu' = hu
  /\ UNCHANGED <<roots, skip, do_readahead, dtUnknown, mapMode, extents, found_unknown,
                 error, fds, lru, free_fd, max_fd, rlim_cur, curfd, kopen, out, ralog,
                 errs, nfail, mapres, status>>

(***************************************************************************)
(* Type Resolver: handle_unknown                                           *)
(***************************************************************************)
\* for (;;) { max = numentries; for (i = start; ...
HuTop ==
  /\ pc = "hu_top"
  /\ hu' = [hu EXCEPT !.max = Len(entries), !.i = hu.start,
                      !.prev = hu.cur, !.cur = <<>>]
  /\ pc' = "hu_sweep"
  /\ UNCHANGED <<roots, skip, do_readahead, dtUnknown, mapMode, entries, extents,
                 found_unknown, error, i, fds, lru, free_fd, max_fd, rlim_cur, curfd,
                 kopen, out, ralog, errs, nfail, mapres, status>>

\* one iteration of the inner for loop
HuSweep ==
  /\ pc = "hu_sweep"
  /\ hu.i < hu.max
  /\ LET e == entries[hu.i + 1]
     IN  \/ /\ e.type # "DT_UNKNOWN"
            /\ hu' = [hu EXCEPT !.i = hu.i + 1]
            /\ UNCHANGED <<entries, error, errs, nfail>>
         \/ \* stat fails
            /\ e.type = "DT_UNKNOWN"
            /\ nfail < MaxFail
            /\ nfail' = nfail + 1
            /\ error' = 1
            /\ errs' = errs \cup {"openstat"}
            /\ hu' = [hu EXCEPT !.i = hu.i + 1, !.stats = Append(@, e.name)]
            /\ UNCHANGED entries
         \/ \* stat succeeds; a directory is walked
            /\ e.type = "DT_UNKNOWN"
            /\ LET r == IF FS[e.name].kind = "DT_DIR"
                        THEN walk(e.name, skip, dtUnknown)
                        ELSE [ents |-> <<>>, found |-> FALSE, err |-> FALSE]
               IN  /\ entries' = entries \o r.ents
                   /\ hu' = [hu EXCEPT !.i = hu.i + 1,
                                       !.found_unknown = hu.found_unknown \/ r.found,
                                       !.stats = Append(@, e.name),
                                       !.cur = @ \o [k \in DOMAIN r.ents |-> r.ents[k].name]]
                   /\ error' = IF r.err THEN 1 ELSE error
                   /\ errs' = IF r.err THEN errs \cup {"openstat"} ELSE errs
            /\ UNCHANGED nfail
  /\ pc' = pc
  /\ UNCHANGED <<roots, skip, do_readahead, dtUnknown, mapMode, extents, found_unknown,
                 i, fds, lru, free_fd, max_fd, rlim_cur, curfd, kopen, out, ralog,
                 mapres, status>>

\* after the sweep: break, or sort_inodes and start = max
HuEnd ==
  /\ pc = "hu_sweep"
  /\ hu.i >= hu.max
  /\ IF ~hu.found_unknown
     THEN /\ pc' = "map"
          /\ i' = 0
          /\ UNCHANGED <<entries, hu>>
     ELSE /\ entries' \in sort_inodes(entries)
          /\ hu' = [hu EXCEPT !.start = hu.max]
          /\ pc' = "hu_top"
          /\ i' = i
  /\ UNCHANGED <<roots, skip, do_readahead, dtUnknown, mapMode, extents, found_unknown,
                 error, fds, lru, free_fd, max_fd, rlim_cur, curfd, kopen, out, ralog,
                 errs, nfail, mapres, status>>

(***************************************************************************)
(* Extent Mapper                                                           *)
(***************************************************************************)
FIEMAP_EXTENT_UNKNOWN == "FIEMAP_EXTENT_UNKNOWN"

\* the values a struct fiemap_extent takes in the model
FiemapExtent ==
  [fe_physical : DiskVals, fe_logical : {U64(0), U64(1)},
   fe_length : {U64(1)}, fe_flags : {{}, {FIEMAP_EXTENT_UNKNOWN}}]

\* physical address and flags of the extents the kernel reports: mapped at an
\* address of DiskVals, or flagged unknown (the address is then of no use and
\* the model lets the kernel report 0)
Reported == (DiskVals \X {{}}) \cup {<<U64Zero, {FIEMAP_EXTENT_UNKNOWN}>>}

\* what FS_IOC_FIEMAP leaves in *fie when it maps n extents: fm_extents[0..n-1]
\* as the kernel filled them, in logical order.  The buffer comes from alloca and
\* only its header is cleared, so beyond the n-th element it holds whatever the
\* stack held; the model keeps one such element when n = 0.
FiemapAnswers(n) ==
  IF n = 0
  THEN { [fm_mapped_extents |-> 0, fm_extents |-> <<g>>] : g \in FiemapExtent }
  ELSE { [fm_mapped_extents |-> n,
          fm_extents |-> [k \in 1..n |->
                            [fe_physical |-> f[k][1], fe_logical |-> U64(k - 1),
                             fe_length |-> U64(1), fe_flags |-> f[k][2]]]] :
         f \in [1..n -> Reported] }

\* the fie that get_disk builds when FIBMAP fails
SyntheticFie(size) ==
  [fm_mapped_extents |-> 1,
   fm_extents |-> << [fe_physical |-> U64(size), fe_logical |-> U64Zero,
                      fe_length |-> U64Zero, fe_flags |-> {}] >>]

\* save_extents storing 1 in entry->numextents whatever it registered
save_extents_one(fie, entry, ra) ==
  LET num == IF ra THEN fie.fm_mapped_extents ELSE 1
  IN  [new |-> [k \in 1..num |->
                  IF FIEMAP_EXTENT_UNKNOWN \in fie.fm_extents[k].fe_flags
                  THEN [disk |-> U64Zero, offset |-> U64Zero, len |-> U64Zero,
                        entry |-> entry]
                  ELSE [disk |-> fie.fm_extents[k].fe_physical,
                        offset |-> fie.fm_extents[k].fe_logical,
                        len |-> fie.fm_extents[k].fe_length,
                        entry |-> entry]],
       numextents |-> 1]

\* save_extents(fie, entry): the Extent records it appends and the value it
\* stores in entry->numextents
save_extents(fie, entry, ra) ==
  LET num == IF ra THEN fie.fm_mapped_extents ELSE 1
  IN  [new |-> [k \in 1..num |->
                  IF FIEMAP_EXTENT_UNKNOWN \in fie.fm_extents[k].fe_flags
                  THEN [disk |-> U64Zero, offset |-> U64Zero, len |-> U64Zero,
                        entry |-> entry]
                  ELSE [disk |-> fie.fm_extents[k].fe_physical,
                        offset |-> fie.fm_extents[k].fe_logical,
                        len |-> fie.fm_extents[k].fe_length,
                        entry |-> entry]],
       numextents |-> num]

\* get_disk(name, fd, entry) once stat succeeded: mode is the file system's
\* answer to the two ioctls, fie the answer of a successful FS_IOC_FIEMAP.
\* saved: whether save_extents was called.
get_disk(name, entry, ra, mode, fie) ==
  IF mode = "fiemap"
  THEN [saved |-> TRUE, ext |-> save_extents(fie, entry, ra)]
  ELSE IF mode = "fibmap"
  THEN [saved |-> FALSE, ext |-> [new |-> <<>>, numextents |-> 0]]
  ELSE [saved |-> TRUE, ext |-> save_extents(SyntheticFie(FS[name].size), entry, ra)]

\* the extents a fie describes: fm_extents[0..fm_mapped_extents-1]
Returned(fie) == SubSeq(fie.fm_extents, 1, fie.fm_mapped_extents)

\* the FIEMAP answers the model lets the kernel give for the next file
AnswersNow ==
  UNION { FiemapAnswers(n) : n \in { m \in MappedCounts : m <= MaxExtents - Len(extents) } }

\* Second pass: one iteration of the loop over the entries
MapStep ==
  /\ pc = "map"
  /\ i < Len(entries)
  /\ LET e == entries[i + 1]
     IN  \/ /\ e.type # "DT_REG"
            /\ UNCHANGED <<entries, extents, error, errs, nfail, mapres>>
         \/ \* open fails
            /\ e.type = "DT_REG"
            /\ nfail < MaxFail
            /\ nfail' = nfail + 1
            /\ error' = 1
            /\ errs' = errs \cup {"openstat"}
            /\ mapres' = mapres @@ (i :> [ok |-> FALSE, k |-> 0, ret |-> <<>>,
                                       name |-> e.name])
            /\ UNCHANGED <<entries, extents>>
         \/ \* stat in get_disk fails
            /\ e.type = "DT_REG"
            /\ nfail < MaxFail
            /\ nfail' = nfail + 1
            /\ error' = 1
            /\ errs' = errs \cup {"openstat"}
            /\ mapres' = mapres @@ (i :> [ok |-> FALSE, k |-> 0, ret |-> <<>>,
                                       name |-> e.name])
            /\ UNCHANGED <<entries, extents>>
         \/ /\ e.type = "DT_REG"
            /\ \E fie \in (IF mapMode = "fiemap" THEN AnswersNow
                           ELSE {SyntheticFie(FS[e.name].size)}) :
                 LET r == get_disk(e.name, i, do_readahead, mapMode, fie)
                 IN  /\ extents' = extents \o r.ext.new
                     /\ entries' = IF r.saved
                                   THEN [entries EXCEPT ![i + 1].numextents = r.ext.numextents]
                                   ELSE entries
                     /\ mapres' = mapres @@ (i :> [ok |-> TRUE, k |-> r.ext.numextents,
                                                     ret |-> Returned(fie),
                                                     name |-> e.name])
            /\ errs' = IF mapMode = "nomap" THEN errs \cup {"mapfail"} ELSE errs
            /\ UNCHANGED <<error, nfail>>
  /\ i' = i + 1
  /\ pc' = pc
  /\ UNCHANGED <<roots, skip, do_readahead, dtUnknown, mapMode, found_unknown, hu, fds,
                 lru, free_fd, max_fd, rlim_cur, curfd, kopen, out, ralog, status>>

\* the second pass is over: branch on do_readahead
MapEnd ==
  /\ pc = "map"
  /\ i >= Len(entries)
  /\ pc' = IF do_readahead THEN "init_fd" ELSE "sort_disk"
  /\ UNCHANGED <<roots, skip, do_readahead, dtUnknown, mapMode, entries, extents,
                 found_unknown, error, i, hu, fds, lru, free_fd, max_fd, rlim_cur, curfd,
                 kopen, out, ralog, errs, nfail, mapres, status>>

(***************************************************************************)
(* LRU for file descriptors.  The operators work on the pool                *)
(*   [fds, lru, free_fd, max_fd, ents, kopen, crashed, now]                *)
(* and return the set of pools the call may leave.  A slot is named by its *)
(* index in fds, an entry by its index in entries (both from 0); crashed   *)
(* says that the process was killed in the call.  now numbers the calls of *)
(* get_fd, and a slot's stamp is the number of the last get_fd that        *)
(* returned it (-1: none).                                                 *)
(***************************************************************************)
RLIM_DEFAULT == 100

\* rlim.rlim_cur after getrlimit (RLIM_DEFAULT when getrlimit failed)
RlimVals == {1, 2, RLIM_DEFAULT}

\* init_fd: max_fd for the soft limit
init_fd(rlim) == rlim - (rlim \div 10)

list_del(l, s) == SelectSeq(l, LAMBDA x : x # s)

list_add(l, s) == <<s>> \o l

list_add_tail(l, s) == Append(l, s)

\* do_close_fd without the close
do_close_fd_leak(P, s) ==
  LET ent == P.fds[s + 1].entry
      closed == [P EXCEPT !.fds[s + 1].entry = NULL]
  IN  IF ent = WILD
      THEN {[closed EXCEPT !.crashed = TRUE], closed}
             \cup {[closed EXCEPT !.ents[k].fd = NULL] : k \in 1..Len(P.ents)}
      ELSE {[closed EXCEPT !.ents[ent + 1].fd = NULL]}

\* do_close_fd(fd).  fd->entry may be a pointer that designates no entry (the
\* slots come from malloc and are never cleared): the store through it then
\* faults, lands outside the program's objects, or lands on some entry.
do_close_fd(P, s) ==
  LET ent == P.fds[s + 1].entry
      closed == [P EXCEPT !.kopen = @ \ {P.fds[s + 1].fd}, !.fds[s + 1].entry = NULL]
  IN  IF ent = WILD
      THEN {[closed EXCEPT !.crashed = TRUE], closed}
             \cup {[closed EXCEPT !.ents[k].fd = NULL] : k \in 1..Len(P.ents)}
      ELSE {[closed EXCEPT !.ents[ent + 1].fd = NULL]}

\* get_unused_fd with the bound test off by one (free_fd <= max_fd)
get_unused_fd_offbyone(P) ==
  IF P.free_fd <= P.max_fd
  THEN { [pool |-> [P EXCEPT !.free_fd = @ + 1,
                             !.fds = Append(@, [entry |-> g, fd |-> -1, stamp |-> -1])],
          slot |-> P.free_fd] : g \in {NULL, WILD} }
  ELSE IF P.lru = <<>>
  THEN { [pool |-> [P EXCEPT !.crashed = TRUE], slot |-> NULL] }
  ELSE LET s == P.lru[Len(P.lru)]
           P1 == [P EXCEPT !.lru = list_del(@, s)]
       IN  IF P1.fds[s + 1].entry # NULL
           THEN { [pool |-> Q, slot |-> s] : Q \in do_close_fd(P1, s) }
           ELSE { [pool |-> P1, slot |-> s] }

\* get_unused_fd: the pools it may leave, each with the slot it returns.  A
\* fresh slot holds what malloc left in it; the assert aborts the process.
get_unused_fd(P) ==
  IF P.free_fd < P.max_fd
  THEN { [pool |-> [P EXCEPT !.free_fd = @ + 1,
                             !.fds = Append(@, [entry |-> g, fd |-> -1, stamp |-> -1])],
          slot |-> P.free_fd] : g \in {NULL, WILD} }
  ELSE IF P.lru = <<>>
  THEN { [pool |-> [P EXCEPT !.crashed = TRUE], slot |-> NULL] }
  ELSE LET s == P.lru[Len(P.lru)]
           P1 == [P EXCEPT !.lru = list_del(@, s)]
       IN  IF P1.fds[s + 1].entry # NULL
           THEN { [pool |-> Q, slot |-> s] : Q \in do_close_fd(P1, s) }
           ELSE { [pool |-> P1, slot |-> s] }

\* open returns the lowest descriptor not in use (0, 1 and 2 are taken)
LowestFree(open) ==
  CHOOSE n \in 3..(3 + Cardinality(open)) :
    n \notin open /\ \A m \in 3..(n - 1) : m \in open

\* get_fd(e); openok: open(e->name, O_RDONLY) succeeds.  ret is the slot, or NULL.
get_fd(P, e, openok) ==
  IF P.ents[e + 1].fd # NULL
  THEN LET s == P.ents[e + 1].fd
       IN  { [pool |-> [P EXCEPT !.lru = list_add(list_del(@, s), s),
                                 !.fds[s + 1].stamp = P.now],
               ret |-> s] }
  ELSE { IF u.pool.crashed
         THEN [pool |-> u.pool, ret |-> NULL]
         ELSE IF openok
         THEN [pool |-> [u.pool EXCEPT
                           !.fds[u.slot + 1] = [entry |-> e, fd |-> LowestFree(u.pool.kopen),
                                                stamp |-> P.now],
                           !.ents[e + 1].fd = u.slot,
                           !.kopen = @ \cup {LowestFree(u.pool.kopen)},
                           !.lru = list_add(@, u.slot)],
               ret |-> u.slot]
         ELSE [pool |-> [u.pool EXCEPT !.fds[u.slot + 1].fd = -1,
                                       !.lru = list_add_tail(@, u.slot)],
               ret |-> NULL]
         : u \in get_unused_fd(P) }

\* close_fd leaving the slot where it is on the list
close_fd_stay(P, s) == do_close_fd(P, s)

\* close_fd(fd)
close_fd(P, s) ==
  { IF Q.crashed THEN Q ELSE [Q EXCEPT !.lru = list_add_tail(list_del(@, s), s)]
    : Q \in do_close_fd(P, s) }

Pool ==
  [fds |-> fds, lru |-> lru, free_fd |-> free_fd, max_fd |-> max_fd, ents |-> entries,
   kopen |-> kopen, crashed |-> FALSE, now |-> i]

SetPool(Q) ==
  /\ fds' = Q.fds
  /\ lru' = Q.lru
  /\ free_fd' = Q.free_fd
  /\ entries' = Q.ents
  /\ kopen' = Q.kopen

(***************************************************************************)
(* main: readahead mode                                                    *)
(***************************************************************************)
\* init_fd and sort_extents
InitFd ==
  /\ pc = "init_fd"
  /\ \E r \in RlimVals :
       /\ rlim_cur' = r
       /\ max_fd' = init_fd(r)
  /\ extents' \in sort_extents(extents)
  /\ i' = 0
  /\ pc' = "ra_get"
  /\ UNCHANGED <<roots, skip, do_readahead, dtUnknown, mapMode, entries, found_unknown,
                 error, hu, fds, lru, free_fd, curfd, kopen, out, ralog, errs, nfail,
                 mapres, status>>

\* Third pass, first half of an iteration: fd = get_fd(e), and the continue
\* when it returned NULL
RaGet ==
  /\ pc = "ra_get"
  /\ i < Len(extents)
  /\ LET ex == extents[i + 1]
         e == ex.entry
     IN  \E openok \in (IF entries[e + 1].fd = NULL /\ nfail < MaxFail
                        THEN BOOLEAN ELSE {TRUE}) :
         \E r \in get_fd(Pool, e, openok) :
           /\ SetPool(r.pool)
           /\ nfail' = IF openok THEN nfail ELSE nfail + 1
           /\ IF r.pool.crashed
              THEN /\ pc' = "crashed"
                   /\ UNCHANGED <<i, curfd, error, errs, ralog>>
              ELSE IF r.ret = NULL
              THEN /\ error' = 1
                   /\ errs' = errs \cup {"getfd"}
                   /\ ralog' = Append(ralog, [entry |-> e, disk |-> ex.disk, issued |-> FALSE])
                   /\ i' = i + 1
                   /\ pc' = pc
                   /\ curfd' = NULL
              ELSE /\ curfd' = r.ret
                   /\ pc' = "ra_read"
                   /\ UNCHANGED <<i, error, errs, ralog>>
  /\ UNCHANGED <<roots, skip, do_readahead, dtUnknown, mapMode, extents, found_unknown,
                 hu, max_fd, rlim_cur, out, mapres, status>>

\* Third pass, second half: readahead, then close_fd when the entry's last
\* extent is done
RaRead ==
  /\ pc = "ra_read"
  /\ LET ex == extents[i + 1]
         e == ex.entry
         P1 == [Pool EXCEPT !.ents[e + 1].numextents = @ - 1]
     IN  /\ \E raok \in BOOLEAN :
              errs' = IF raok THEN errs ELSE errs \cup {"readahead"}
         /\ ralog' = Append(ralog, [entry |-> e, disk |-> ex.disk, issued |-> TRUE])
         /\ \E Q \in (IF P1.ents[e + 1].numextents = 0 THEN close_fd(P1, curfd) ELSE {P1}) :
              /\ SetPool(Q)
              /\ pc' = IF Q.crashed THEN "crashed" ELSE "ra_get"
  /\ i' = i + 1
  /\ curfd' = NULL
  /\ UNCHANGED <<roots, skip, do_readahead, dtUnknown, mapMode, extents, found_unknown,
                 error, hu, max_fd, rlim_cur, out, nfail, mapres, status>>

(***************************************************************************)
(* main: print mode, and the return                                        *)
(***************************************************************************)
SortEntriesDisk ==
  /\ pc = "sort_disk"
  /\ entries' \in sort_entries_disk(entries, extents)
  /\ i' = 0
  /\ pc' = "print"
  /\ UNCHANGED <<roots, skip, do_readahead, dtUnknown, mapMode, extents, found_unknown,
                 error, hu, fds, lru, free_fd, max_fd, rlim_cur, curfd, kopen, out, ralog,
                 errs, nfail, mapres, status>>

\* puts(entries[i].name)
Puts ==
  /\ pc = "print"
  /\ i < Len(entries)
  /\ out' = Append(out, entries[i + 1].name)
  /\ i' = i + 1
  /\ UNCHANGED <<pc, roots, skip, do_readahead, dtUnknown, mapMode, entries, extents,
                 found_unknown, error, hu, fds, lru, free_fd, max_fd, rlim_cur, curfd,
                 kopen, ralog, errs, nfail, mapres, status>>

\* return error
Return ==
  /\ pc \in {"print", "ra_get"}
  /\ i >= (IF pc = "print" THEN Len(entries) ELSE Len(extents))
  /\ status' = error
  /\ pc' = "done"
  /\ UNCHANGED <<roots, skip, do_readahead, dtUnknown, mapMode, entries, extents,
                 found_unknown, error, i, hu, fds, lru, free_fd, max_fd, rlim_cur, curfd,
                 kopen, out, ralog, errs, nfail, mapres>>

Next ==
  \/ FirstPass
  \/ SortInodes
  \/ HuTop
  \/ HuSweep
  \/ HuEnd
  \/ MapStep
  \/ MapEnd
  \/ InitFd
  \/ RaGet
  \/ RaRead
  \/ SortEntriesDisk
  \/ Puts
  \/ Return

Spec == Init /\ [][Next]_vars

\* the process is scheduled until it returns
FairSpec == Spec /\ WF_vars(Next)

(***************************************************************************)
(* Properties                                                              *)
(***************************************************************************)
Range(f) == { f[x] : x \in DOMAIN f }

Count(f, v) == Cardinality({ x \in DOMAIN f : f[x] = v })

\* the directories main walks
StartRoots == IF roots = <<>> THEN <<".">> ELSE roots

\* the names a walk of all the roots registers when the file system reports
\* the types eagerly
EagerNames ==
  UNION { { e.name : e \in Range(walk(StartRoots[r], skip, FALSE).ents) } :
          r \in DOMAIN StartRoots }

\* the paths of the regular files reachable from some root, nothing skipped
ReachableRegular == { p \in EagerNames : FS[p].kind = "DT_REG" }

PrintDone == pc = "done" /\ ~do_readahead

ReadaheadDone == pc = "done" /\ do_readahead

\* the iterations of the third pass that targeted the entry with index e
Attempts(e) == { x \in DOMAIN ralog : ralog[x].entry = e }

\* those that called readahead
Issued(e) == { x \in Attempts(e) : ralog[x].issued }

\* the Extent records whose back-reference is the entry with index e
Registered(e) == { x \in DOMAIN extents : extents[x].entry = e }

\* C1: in print mode the entries are emitted in an order that is non-decreasing
\* in their disk-hint, as unsigned 64-bit values
C1_PrintOrder ==
  (pc \in {"print", "done"} /\ ~do_readahead) =>
    \A k \in 1..(Len(entries) - 1) : LeqU64(entries[k].disk, entries[k + 1].disk)

\* C2: the readahead calls are issued in an order that is non-decreasing in the
\* physical address of the targeted extent
C2_ReadaheadOrder ==
  \A x \in DOMAIN ralog, y \in DOMAIN ralog :
    (x < y /\ ralog[x].issued /\ ralog[y].issued) => LeqU64(ralog[x].disk, ralog[y].disk)

\* C3: in print mode every reachable, non-skipped regular-file path is printed
\* exactly once
C3_PrintedOnce ==
  PrintDone => \A p \in ReachableRegular : Count(out, p) = 1

\* C4: in readahead mode every reachable, non-skipped regular file whose open
\* and stat did not fail has one or more extents registered and at least one
\* readahead call issued against it
C4_ReadaheadComplete ==
  ReadaheadDone =>
    \A k \in DOMAIN entries :
      (FS[entries[k].name].kind = "DT_REG"
         /\ ~(k - 1 \in DOMAIN mapres /\ ~mapres[k - 1].ok))
      => (Registered(k - 1) # {} /\ Issued(k - 1) # {})

\* C5: the set of paths printed when every type is reported as unknown is the
\* set printed when the types are reported eagerly
C5_UnknownRecovery ==
  (PrintDone /\ dtUnknown) => Range(out) = EagerNames

InResolver == pc \in {"hu_top", "hu_sweep"}

\* C6: handle_unknown, once called, eventually returns
C6_ResolverTerminates == [](InResolver => <>(~InResolver))

InReadaheadPass == pc \in {"ra_get", "ra_read"}

\* the slot fds[s - 1] is bound and its descriptor is open
HoldsOpen(s) == fds[s].entry # NULL /\ fds[s].fd \in kopen

\* C7: during the readahead pass the number of slots that hold an open
\* descriptor, and the number of descriptors open, is at most the soft limit
\* minus one tenth of it
C7_DescriptorBound ==
  InReadaheadPass =>
    /\ Cardinality(kopen) <= rlim_cur - (rlim_cur \div 10)
    /\ Cardinality({ s \in DOMAIN fds : HoldsOpen(s) }) <= rlim_cur - (rlim_cur \div 10)

\* C7 witness: every slot is allocated and holds an open descriptor, and an
\* entry with extents left has lost its descriptor to another entry
C7_Witness ==
  /\ InReadaheadPass
  /\ free_fd = max_fd
  /\ Cardinality(kopen) = max_fd
  /\ nfail = 0
  /\ \E k \in DOMAIN entries :
       /\ entries[k].fd = NULL
       /\ entries[k].numextents > 0
       /\ Issued(k - 1) # {}

\* C8: after every get_fd and close_fd, entry.fd names a slot iff the slot's
\* back-reference names the entry and its descriptor is open; no entry has two
\* slots; a slot whose open failed has no entry; every allocated slot is on the
\* LRU list exactly once
C8_SlotAccounting ==
  InReadaheadPass =>
    /\ \A k \in DOMAIN entries : \A s \in DOMAIN fds :
         (entries[k].fd = s - 1) <=> (fds[s].entry = k - 1 /\ fds[s].fd \in kopen)
    /\ \A k \in DOMAIN entries :
         Cardinality({ s \in DOMAIN fds : fds[s].entry = k - 1 }) <= 1
    /\ \A s \in DOMAIN fds : fds[s].fd \notin kopen => fds[s].entry = NULL
    /\ \A s \in 0..(free_fd - 1) : Count(lru, s) = 1

\* C9: when the readahead pass is over, every entry the mapper registered with
\* k extents has been the target of exactly k iterations of the pass, each of
\* which called get_fd for it, and of a readahead call in all of them but those
\* whose get_fd failed
C9_ExtentAccounting ==
  ReadaheadDone =>
    \A e \in DOMAIN mapres :
      /\ Cardinality(Attempts(e)) = mapres[e].k
      /\ Cardinality(Issued(e)) = mapres[e].k - Cardinality(Attempts(e) \ Issued(e))

\* C9 witness: the pass is over for an entry with two extents or more, one of
\* them skipped because get_fd failed and one of them read ahead
C9_Witness ==
  /\ ReadaheadDone
  /\ \E e \in DOMAIN mapres :
       /\ mapres[e].k >= 2
       /\ Issued(e) # {}
       /\ Attempts(e) \ Issued(e) # {}

\* C10: the exit status is 0 iff no reportable error happened
C10_ExitStatus ==
  pc = "done" => (status = 0 <=> errs = {})

\* C11: when FIEMAP fails, every file whose open and stat succeeded gets exactly
\* one Extent record with offset 0 and length = the file size, and extent-count
\* 1; when FIBMAP fails too, the record's disk is the file size
C11_FibmapFallback ==
  (pc = "map" /\ mapMode # "fiemap") =>
    \A e \in DOMAIN mapres :
      mapres[e].ok =>
        /\ Cardinality(Registered(e)) = 1
        /\ entries[e + 1].numextents = 1
        /\ \A x \in Registered(e) :
             /\ extents[x].offset = U64Zero
             /\ extents[x].len = U64(FS[entries[e + 1].name].size)
             /\ mapMode = "nomap" => extents[x].disk = U64(FS[entries[e + 1].name].size)

\* for every object but ".": the directory that holds it
ParentOf ==
  [p \in DOMAIN FS \ {"."} |->
     CHOOSE q \in DOMAIN FS : \E k \in DOMAIN FS[q].names : q \o "/" \o FS[q].names[k] = p]

\* and the name it has in that directory
SimpleNameOf ==
  [p \in DOMAIN FS \ {"."} |->
     CHOOSE n \in Range(FS[ParentOf[p]].names) : ParentOf[p] \o "/" \o n = p]

RECURSIVE Chain(_)
\* p and the directories above it, p first
Chain(p) == IF p = "." THEN <<p>> ELSE <<p>> \o Chain(ParentOf[p])

ChainOf == [p \in DOMAIN FS |-> Chain(p)]

\* p is the directory root or lies beneath it
Under(root, p) == \E k \in DOMAIN ChainOf[p] : ChainOf[p][k] = root

\* p lies beneath root and its simple name, or that of a directory between
\* root and p, is in the skip set
Hidden(root, p) ==
  \E k \in DOMAIN ChainOf[p] :
    /\ ChainOf[p][k] = root
    /\ \E m \in 1..(k - 1) : SimpleNameOf[ChainOf[p][m]] \in Range(skip)

\* the paths the program has an Entry for, has printed or has read ahead
Handled ==
  { entries[k].name : k \in DOMAIN entries } \cup Range(out)
    \cup { entries[ralog[x].entry + 1].name : x \in DOMAIN ralog }

\* C12: no Entry is appended, no path printed and no readahead issued for an
\* object whose simple name, or the simple name of a directory between its
\* starting ROOT and it, is in the skip set; "." and ".." are in the skip set
C12_SkipFiltering ==
  /\ skip[1] = "." /\ skip[2] = ".."
  /\ \A n \in Handled :
       /\ \E r \in Range(StartRoots) : r \in DOMAIN FS /\ Under(r, n)
       /\ \A r \in Range(StartRoots) : (r \in DOMAIN FS /\ Under(r, n)) => ~Hidden(r, n)

\* C12 witness: the run is over, it has handled some path, and a skip argument
\* has hidden an object beneath a ROOT
C12_Witness ==
  /\ pc = "done"
  /\ Handled # {}
  /\ \E r \in Range(StartRoots) : \E p \in DOMAIN FS :
       r \in DOMAIN FS /\ Under(r, p) /\ Hidden(r, p)

\* handle_unknown has been called (its first statement in the loop stores the
\* number of entries, which is not 0 when it is called, in max)
ResolverCalled == InResolver \/ hu.max > 0

\* C13: handle_unknown is called after the initial walk if and only if that
\* walk appended an entry of type unknown
C13_ResolverInvoked ==
  pc \in {"hu_top", "hu_sweep", "map"} =>
    (ResolverCalled <=> \E k \in DOMAIN entries : entries[k].type = "DT_UNKNOWN")

\* C14: when handle_unknown has returned and no stat failed, no entry has type
\* unknown any more
C14_TypeClassified ==
  (pc = "map" /\ i = 0 /\ hu.max > 0 /\ nfail = 0) =>
    \A k \in DOMAIN entries : entries[k].type # "DT_UNKNOWN"

\* C15: no Entry refers to an object that is a directory
C15_NoDirectoryEntry ==
  \A k \in DOMAIN entries : FS[entries[k].name].kind # "DT_DIR"

\* the names of the entries in the window [start, max) of the current sweep
WindowNames == [k \in 1..(hu.max - hu.start) |-> entries[hu.start + k].name]

\* C16: in every iteration of handle_unknown's loop after the first the window
\* [start, max) holds exactly the entries the walks of the iteration before
\* appended, and no entry is passed to stat more than once
C16_ResolverWindow ==
  pc = "hu_sweep" =>
    /\ hu.start > 0 =>
         \A n \in DOMAIN FS : Count(WindowNames, n) = Count(hu.prev, n)
    /\ \A n \in DOMAIN FS :
         Count(hu.stats, n) <= Count([k \in DOMAIN entries |-> entries[k].name], n)

\* the Extent record that stands for the returned extent fe of the entry e
ExtentOf(fe, e) ==
  IF FIEMAP_EXTENT_UNKNOWN \in fe.fe_flags
  THEN [disk |-> U64Zero, offset |-> U64Zero, len |-> U64Zero, entry |-> e]
  ELSE [disk |-> fe.fe_physical, offset |-> fe.fe_logical, len |-> fe.fe_length,
        entry |-> e]

\* C17: when FIEMAP succeeded with n extents, the Extent records of the entry
\* are the n returned extents in readahead mode and the first returned extent
\* (none when n = 0) in print mode, each with the values the kernel returned
\* (zeroes when flagged unknown), and the entry's extent-count is their number
C17_FiemapRegistration ==
  (pc = "map" /\ mapMode = "fiemap") =>
    \A e \in DOMAIN mapres :
      mapres[e].ok =>
        LET n == Len(mapres[e].ret)
            want == IF do_readahead THEN n ELSE IF n = 0 THEN 0 ELSE 1
        IN  /\ Cardinality(Registered(e)) = want
            /\ entries[e + 1].numextents = Cardinality(Registered(e))
            /\ \A x \in Registered(e) :
                 \E k \in 1..want : extents[x] = ExtentOf(mapres[e].ret[k], e)

\* the name of the entry the Extent record with index x was registered for
OwnerName(x) == mapres[extents[x].entry].name

\* C18: where an Extent's back-reference is followed it designates the entry
\* the Extent was registered for, of type regular: up to the copy of the hints
\* in print mode and all through the readahead pass the entry is where it was,
\* and in print mode the hint has been stored in that entry
C18_BackReference ==
  /\ (pc \in {"map", "sort_disk", "init_fd", "ra_get", "ra_read"} \/ ReadaheadDone) =>
       \A x \in DOMAIN extents :
         /\ entries[extents[x].entry + 1].name = OwnerName(x)
         /\ entries[extents[x].entry + 1].type = "DT_REG"
  /\ (pc = "print" \/ PrintDone) =>
       \A x \in DOMAIN extents :
         \E k \in DOMAIN entries :
           /\ entries[k].name = OwnerName(x)
           /\ entries[k].disk = extents[x].disk
           /\ entries[k].type = "DT_REG"

\* C18 witness: print mode has copied a hint into an entry and the sort has
\* then moved that entry away from where the Extent's back-reference points
C18_Witness ==
  /\ pc = "print"
  /\ \E x \in DOMAIN extents :
       /\ extents[x].disk # U64Zero
       /\ entries[extents[x].entry + 1].name # OwnerName(x)

\* the positions of the LRU list, head first, whose slot is bound
BoundAt(k) == HoldsOpen(lru[k] + 1)

\* on the LRU list every bound slot precedes every unbound one, and the bound
\* ones are in the order of their last get_fd, the latest first
LruOrder ==
  \A k \in DOMAIN lru, m \in DOMAIN lru :
    (k < m /\ BoundAt(m)) =>
      (BoundAt(k) /\ fds[lru[k] + 1].stamp > fds[lru[m] + 1].stamp)

\* a step of get_fd that takes a bound slot from an entry other than the one
\* it is called for does so with every slot allocated and bound, and takes the
\* slot whose last get_fd is the oldest
EvictRule ==
  \A s \in DOMAIN fds :
    (pc = "ra_get" /\ i < Len(extents) /\ HoldsOpen(s)
       /\ fds[s].entry # extents[i + 1].entry /\ fds'[s].entry # fds[s].entry)
    => /\ free_fd = max_fd
       /\ \A t \in DOMAIN fds : HoldsOpen(t) /\ fds[s].stamp <= fds[t].stamp

C20_ReleasedAtEnd ==
  /\ (ReadaheadDone /\ "getfd" \notin errs) =>
       /\ \A k \in DOMAIN entries : entries[k].numextents = 0 /\ entries[k].fd = NULL
       /\ \A s \in DOMAIN fds : fds[s].entry = NULL
       /\ kopen = {}
  /\ (pc = "ra_get" /\ "getfd" \notin errs) =>
       \A k \in DOMAIN entries : entries[k].fd # NULL => entries[k].numextents > 0

\* C20 witness: the pass is over without a failed get_fd, and an entry was
\* read ahead, lost its descriptor to another entry and was read ahead again
C20_Witness ==
  /\ ReadaheadDone
  /\ "getfd" \notin errs
  /\ max_fd = 1
  /\ \E x \in DOMAIN ralog, y \in DOMAIN ralog, z \in DOMAIN ralog :
       /\ x < y /\ y < z
       /\ ralog[x].entry = ralog[z].entry
       /\ ralog[y].entry # ralog[x].entry
       /\ ralog[x].issued /\ ralog[y].issued /\ ralog[z].issued

====
